---- MODULE Spec2Model ----
(***************************************************************************)
(* ScienceGPT: the response-generation and caching pipeline of             *)
(* backend_code/llm_handler.py (class LLMHandler) over the per-session     *)
(* store st.session_state.                                                 *)
(*                                                                         *)
(* Conventions.                                                            *)
(*  - st.session_state is one function from attribute names to values; an  *)
(*    attribute that was never assigned is absent from its DOMAIN, and     *)
(*    reading it raises AttributeError, as Streamlit does.                 *)
(*  - An Optional value is None (the empty sequence) or Some(x) (<<x>>).   *)
(*  - Time is counted in minutes since the session started.                *)
(*  - Every external service (language model, translator, video search,   *)
(*    transcript fetch) answers with an outcome chosen by the environment. *)
(***************************************************************************)
EXTENDS Integers, Sequences, FiniteSets, TLC

VARIABLES
    session_state,    \* st.session_state
    now,              \* datetime.now(), in minutes
    hist,             \* what happened before the last operation (observation only)
    ret,              \* the last completed operation: its arguments and what it returned
    pc,               \* position inside generate_response ("idle" between invocations)
    frame,            \* the local variables of the running generate_response
    calls             \* the external calls issued by the running generate_response, in order

vars == <<session_state, now, hist, ret, pc, frame, calls>>

----------------------------------------------------------------------------
(* Optional values *)

None == <<>>

Some(x) == <<x>>

----------------------------------------------------------------------------
(* Bounds of the model *)

\* the clock stops advancing at MaxTime minutes
MaxTime == 1441

\* the longest list of items the video search answers with
MaxResults == 2

----------------------------------------------------------------------------
(* Program constants *)

\* _is_cache_valid(cache_key, cache_duration_hours = 24)
DefaultCacheDurationHours == 24

MinutesPerHour == 60

\* suggestions[:4]
MaxSuggestions == 4

\* re.search(r'[\w-]{11}', response_text)
VideoIdLength == 11

\* datetime.min (0001-01-01T00:00), in minutes relative to the session start
DatetimeMin == -1065000000

----------------------------------------------------------------------------
(* Inputs *)

\* the settings generate_suggestions is called with: they differ in the language
SuggestionSettings ==
    { <<3, "Physics", "English", "All Topics">>, <<3, "Physics", "Hindi", "All Topics">> }

\* the settings generate_fact_of_day is called with: they differ in the topic
FactSettings ==
    { <<3, "Physics", "All Topics">>, <<3, "Physics", "Light">> }

\* the steps by which the clock advances: around the 24 hour threshold
TimeSteps == {DefaultCacheDurationHours * MinutesPerHour - 1,
              DefaultCacheDurationHours * MinutesPerHour,
              DefaultCacheDurationHours * MinutesPerHour + 1}

----------------------------------------------------------------------------
(* datetime *)

\* datetime.isoformat(): the timestamp as text, <<days, hours, minutes>>
isoformat(t) ==
    <<t \div (24 * MinutesPerHour), (t % (24 * MinutesPerHour)) \div MinutesPerHour, t % MinutesPerHour>>

\* datetime.fromisoformat()
fromisoformat(s) == s[1] * 24 * MinutesPerHour + s[2] * MinutesPerHour + s[3]

\* timedelta(hours = h), in minutes
timedelta_hours(h) == h * MinutesPerHour

----------------------------------------------------------------------------
(* st.session_state *)

HasAttr(s, k) == k \in DOMAIN s

\* s with the attributes of upd assigned
SetAttrs(s, upd) ==
    [k \in (DOMAIN s) \cup (DOMAIN upd) |-> IF k \in DOMAIN upd THEN upd[k] ELSE s[k]]

EmptyDict == [k \in {} |-> None]

\* d[k] = v
DictPut(d, k, v) == [x \in (DOMAIN d) \cup {k} |-> IF x = k THEN v ELSE d[x]]

----------------------------------------------------------------------------
(* LLMHandler._create_settings_hash *)

\* leaves the language out of the digested string
settings_string_drops_language(grade, subject, language, topic) ==
    ToString(grade) \o "-" \o subject \o "-" \o topic

\* f"{grade}-{subject}-{language}-{topic}"
settings_string(grade, subject, language, topic) ==
    ToString(grade) \o "-" \o subject \o "-" \o language \o "-" \o topic

\* hashlib.md5(...).hexdigest(): a digest, taken to be collision free
md5(s) == "md5(" \o s \o ")"

create_settings_hash(grade, subject, language, topic) ==
    md5(settings_string(grade, subject, language, topic))

----------------------------------------------------------------------------
(* LLMHandler._is_cache_valid *)

cache_time_of(cache_entry) ==
    IF "timestamp" \in DOMAIN cache_entry
    THEN fromisoformat(cache_entry.timestamp)
    ELSE DatetimeMin

is_cache_valid_lenient(fact_cache, clock, cache_key, cache_duration_hours) ==
    IF cache_key \notin DOMAIN fact_cache
    THEN FALSE
    ELSE clock - cache_time_of(fact_cache[cache_key]) <= timedelta_hours(cache_duration_hours)

\* takes every stored entry as valid, whatever its age
is_cache_valid_ignores_age(fact_cache, clock, cache_key, cache_duration_hours) ==
    cache_key \in DOMAIN fact_cache

is_cache_valid(fact_cache, clock, cache_key, cache_duration_hours) ==
    IF cache_key \notin DOMAIN fact_cache
    THEN FALSE
    ELSE clock - cache_time_of(fact_cache[cache_key]) < timedelta_hours(cache_duration_hours)

----------------------------------------------------------------------------
(* The language model: client.chat.completions.create(...)                  *)
(* An outcome is [kind, content]: the call raises ("raise"), answers with a   *)
(* message whose content is None ("none"), or answers with a text ("text"), *)
(* given as its lines (text.split('\n')).                                   *)

LlmRaise == [kind |-> "raise", content |-> <<>>]

LlmNoContent == [kind |-> "none", content |-> <<>>]

LlmText(lines) == [kind |-> "text", content |-> lines]

\* the same outcomes where the content is one text, not its lines
TextRaise == [kind |-> "raise", content |-> ""]

TextNoContent == [kind |-> "none", content |-> ""]

\* str.strip(): the texts of the model carry no surrounding whitespace, except
\* the lines that are whitespace only
strip(text) == IF text \in {" ", "  "} THEN "" ELSE text

\* keeps every element
Take_all(seq, n) == seq

\* seq[:n]
Take(seq, n) == SubSeq(seq, 1, IF Len(seq) < n THEN Len(seq) ELSE n)

----------------------------------------------------------------------------
(* LLMHandler.generate_suggestions *)

FallbackSuggestions ==
    << "What is the structure of an atom?",
       "How do plants make their food?",
       "What causes the seasons to change?",
       "Why is water important for living things?" >>

\* what the model may answer to the suggestions prompt
SuggestionOutcomes ==
    { LlmRaise, LlmNoContent,
      LlmText(<<"">>),
      LlmText(<<"qa1", " ", "qa2">>),
      LlmText(<<"qb1", "qb2", "qb3", "qb4", "qb5">>) }

StripLine(q) == strip(q) # ""

\* [q.strip() for q in suggestions_text.split('\n') if q.strip()]
parse_suggestions(lines) ==
    LET kept == SelectSeq(lines, StripLine)
    IN  [i \in 1..Len(kept) |-> strip(kept[i])]

\* how the condition of lines 237-239 evaluates: "regenerate", "cached", or
\* "AttributeError" when it reads an attribute the session does not hold
suggestions_branch(s, cache_key) ==
    IF ~HasAttr(s, "last_settings_hash") THEN "AttributeError"
    ELSE IF s.last_settings_hash # Some(cache_key) THEN "regenerate"
    ELSE IF ~HasAttr(s, "cached_suggestions") THEN "AttributeError"
    ELSE IF s.cached_suggestions = <<>> THEN "regenerate"
    ELSE IF ~HasAttr(s, "settings_applied") THEN "AttributeError"
    ELSE IF s.settings_applied THEN "regenerate"
    ELSE "cached"

\* stores the fallback list when the model call fails
generate_suggestions_caches_fallback(s, grade, subject, language, topic, llm) ==
    LET cache_key == create_settings_hash(grade, subject, language, topic)
        branch == suggestions_branch(s, cache_key)
        s1 == SetAttrs(s, [settings_applied |-> FALSE])
        suggestions == parse_suggestions(llm.content)
    IN  CASE branch = "AttributeError" ->
               [session |-> s, value |-> FallbackSuggestions, llm_calls |-> 0, error |-> TRUE]
          [] branch = "cached" ->
               [session |-> s, value |-> s.cached_suggestions, llm_calls |-> 0, error |-> FALSE]
          [] branch = "regenerate" /\ llm.kind # "text" ->
               [session |-> SetAttrs(s1, [cached_suggestions |-> FallbackSuggestions,
                                          last_settings_hash |-> Some(cache_key)]),
                value |-> FallbackSuggestions, llm_calls |-> 1, error |-> TRUE]
          [] OTHER ->
               [session |-> SetAttrs(s1, [cached_suggestions |-> Take(suggestions, MaxSuggestions),
                                          last_settings_hash |-> Some(cache_key)]),
                value |-> Take(suggestions, MaxSuggestions),
                llm_calls |-> 1, error |-> FALSE]

\* the call on session s when the model answers llm: the session it leaves,
\* the value it returns, the model calls it made, whether it took the except branch
generate_suggestions(s, grade, subject, language, topic, llm) ==
    LET cache_key == create_settings_hash(grade, subject, language, topic)
        branch == suggestions_branch(s, cache_key)
        s1 == SetAttrs(s, [settings_applied |-> FALSE])
        suggestions == parse_suggestions(llm.content)
    IN  CASE branch = "AttributeError" ->
               [session |-> s, value |-> FallbackSuggestions, llm_calls |-> 0, error |-> TRUE]
          [] branch = "cached" ->
               [session |-> s, value |-> s.cached_suggestions, llm_calls |-> 0, error |-> FALSE]
          [] branch = "regenerate" /\ llm.kind # "text" ->
               [session |-> s1, value |-> FallbackSuggestions, llm_calls |-> 1, error |-> TRUE]
          [] OTHER ->
               [session |-> SetAttrs(s1, [cached_suggestions |-> Take(suggestions, MaxSuggestions),
                                          last_settings_hash |-> Some(cache_key)]),
                value |-> Take(suggestions, MaxSuggestions),
                llm_calls |-> 1, error |-> FALSE]

----------------------------------------------------------------------------
(* LLMHandler.generate_fact_of_day *)

FallbackFact ==
    "The human brain contains approximately 86 billion neurons!"

FallbackExplanation ==
    "Each neuron can connect to thousands of other neurons, creating an incredibly complex network that allows us to think, learn, and remember."

\* a line of the model's answer: its label ("Fact:", "Explanation:" or none) and the rest
FactLine(label, body) == [label |-> label, body |-> body]

\* what the model may answer to the fact prompt
FactOutcomes ==
    { LlmRaise, LlmNoContent,
      LlmText(<<FactLine("Fact:", "f1"), FactLine("Explanation:", "e1")>>),
      LlmText(<<FactLine("", "f2"), FactLine("", "e2"), FactLine("", "e3")>>) }

LineText(line) == line.label \o line.body

RECURSIVE LastLabelled(_, _)
\* the loop of lines 299-303: the body of the last line that starts with the label
LastLabelled(lines, label) ==
    IF lines = <<>> THEN ""
    ELSE IF lines[Len(lines)].label = label THEN strip(lines[Len(lines)].body)
    ELSE LastLabelled(SubSeq(lines, 1, Len(lines) - 1), label)

RECURSIVE JoinLines(_)
\* ' '.join(lines)
JoinLines(lines) ==
    IF lines = <<>> THEN ""
    ELSE IF Len(lines) = 1 THEN LineText(lines[1])
    ELSE LineText(lines[1]) \o " " \o JoinLines(Tail(lines))

\* lines 296-307
parse_fact(lines) ==
    LET fact0 == LastLabelled(lines, "Fact:")
        explanation0 == LastLabelled(lines, "Explanation:")
    IN  [fact |-> IF fact0 = "" THEN LineText(lines[1]) ELSE fact0,
         explanation |-> IF explanation0 = "" /\ Len(lines) > 1
                         THEN JoinLines(Tail(lines)) ELSE explanation0]

\* how the condition of lines 276-277 evaluates
fact_branch(s, clock, cache_key) ==
    IF ~is_cache_valid(s.fact_cache, clock, cache_key, DefaultCacheDurationHours) THEN "regenerate"
    ELSE IF ~HasAttr(s, "settings_applied") THEN "AttributeError"
    ELSE IF s.settings_applied THEN "regenerate"
    ELSE "cached"

FallbackFactData(clock) ==
    [fact |-> FallbackFact, explanation |-> FallbackExplanation, timestamp |-> isoformat(clock)]

\* stores the fallback payload when the model call fails
generate_fact_of_day_caches_fallback(s, clock, grade, subject, topic, llm) ==
    LET cache_key == create_settings_hash(grade, subject, "English", topic)
        branch == fact_branch(s, clock, cache_key)
        parsed == parse_fact(llm.content)
        fact_data == [fact |-> parsed.fact, explanation |-> parsed.explanation,
                      timestamp |-> isoformat(clock)]
    IN  CASE branch = "AttributeError" ->
               [session |-> s, value |-> FallbackFactData(clock), llm_calls |-> 0, error |-> TRUE]
          [] branch = "cached" ->
               [session |-> s, value |-> s.fact_cache[cache_key], llm_calls |-> 0, error |-> FALSE]
          [] branch = "regenerate" /\ llm.kind # "text" ->
               [session |-> SetAttrs(s, [fact_cache |->
                                DictPut(s.fact_cache, cache_key, FallbackFactData(clock))]),
                value |-> FallbackFactData(clock), llm_calls |-> 1, error |-> TRUE]
          [] OTHER ->
               [session |-> SetAttrs(s, [fact_cache |-> DictPut(s.fact_cache, cache_key, fact_data)]),
                value |-> fact_data, llm_calls |-> 1, error |-> FALSE]

generate_fact_of_day(s, clock, grade, subject, topic, llm) ==
    LET cache_key == create_settings_hash(grade, subject, "English", topic)
        branch == fact_branch(s, clock, cache_key)
        parsed == parse_fact(llm.content)
        fact_data == [fact |-> parsed.fact, explanation |-> parsed.explanation,
                      timestamp |-> isoformat(clock)]
    IN  CASE branch = "AttributeError" ->
               [session |-> s, value |-> FallbackFactData(clock), llm_calls |-> 0, error |-> TRUE]
          [] branch = "cached" ->
               [session |-> s, value |-> s.fact_cache[cache_key], llm_calls |-> 0, error |-> FALSE]
          [] branch = "regenerate" /\ llm.kind # "text" ->
               [session |-> s, value |-> FallbackFactData(clock), llm_calls |-> 1, error |-> TRUE]
          [] OTHER ->
               [session |-> SetAttrs(s, [fact_cache |-> DictPut(s.fact_cache, cache_key, fact_data)]),
                value |-> fact_data, llm_calls |-> 1, error |-> FALSE]

----------------------------------------------------------------------------
(* LLMHandler.clear_suggestion_cache, LLMHandler.clear_fact_cache *)

\* forgets to reset the key of the cached suggestions
clear_suggestion_cache_keeps_key(s) ==
    SetAttrs(s, [cached_suggestions |-> <<>>, settings_applied |-> TRUE])

clear_suggestion_cache(s) ==
    SetAttrs(s, [cached_suggestions |-> <<>>, last_settings_hash |-> None, settings_applied |-> TRUE])

clear_fact_cache(s) ==
    SetAttrs(s, [fact_cache |-> EmptyDict, settings_applied |-> TRUE])

----------------------------------------------------------------------------
(* Texts at character level: a sequence of one-character strings.  Video    *)
(* ids and the model's selection response are such texts.                   *)

LowerCase ==
    {"a", "b", "c", "d", "e", "f", "g", "h", "i", "j", "k", "l", "m",
     "n", "o", "p", "q", "r", "s", "t", "u", "v", "w", "x", "y", "z"}

UpperCase ==
    {"A", "B", "C", "D", "E", "F", "G", "H", "I", "J", "K", "L", "M",
     "N", "O", "P", "Q", "R", "S", "T", "U", "V", "W", "X", "Y", "Z"}

Digits == {"0", "1", "2", "3", "4", "5", "6", "7", "8", "9"}

\* the character class [\w-]
IdChars == LowerCase \cup UpperCase \cup Digits \cup {"_", "-"}

\* whether the pattern [\w-]{11} matches text at position i
MatchesAt(text, i) ==
    /\ i + VideoIdLength - 1 <= Len(text)
    /\ \A j \in i..(i + VideoIdLength - 1) : text[j] \in IdChars

\* re.search(r'[\w-]{11}', text): the leftmost match, or None
regex_search(text) ==
    LET starts == {i \in 1..Len(text) : MatchesAt(text, i)}
    IN  IF starts = {} THEN None
        ELSE LET first == CHOOSE i \in starts : \A k \in starts : i <= k
             IN  Some(SubSeq(text, first, first + VideoIdLength - 1))

----------------------------------------------------------------------------
(* The video search: youtube_service.search().list(...).execute()           *)

Video(id, title, description) == [id |-> id, title |-> title, description |-> description]

Id1 == <<"d", "Q", "w", "4", "w", "9", "W", "g", "X", "c", "Q">>

Id2 == <<"a", "-", "b", "_", "c", "1", "2", "3", "4", "5", "6">>

Id3 == <<"z", "z", "z", "z", "z", "z", "z", "z", "z", "z", "z">>

\* the videos the index holds; the second carries no description
VideoPool ==
    { Video(Id1, "title1", "description1"),
      Video(Id2, "title2", ""),
      Video(Id3, "title3", "description3") }

\* the result lists: at most MaxResults videos, no video twice
SearchResults ==
    UNION { {items \in [1..n -> VideoPool] : \A i, j \in 1..n : i # j => items[i] # items[j]}
            : n \in 0..MaxResults }

SearchRaise == [kind |-> "raise", items |-> <<>>]

SearchOutcomes == {SearchRaise} \cup {[kind |-> "ok", items |-> items] : items \in SearchResults}

\* the position of the first item of videos that carries the id
FirstIndex(videos, id) == CHOOSE i \in 1..Len(videos) : videos[i].id = id /\ \A k \in 1..(i - 1) : videos[k].id # id

\* the position of the last item of videos that carries the id
LastIndex(videos, id) == CHOOSE i \in 1..Len(videos) : videos[i].id = id /\ \A k \in (i + 1)..Len(videos) : videos[k].id # id

\* lines 92-99: the dict of the candidates by id, as the sequence of its values
\* (a dict keeps the order in which its keys were first inserted, and the value
\* inserted last)
video_options(videos) ==
    LET firsts == {i \in 1..Len(videos) : FirstIndex(videos, videos[i].id) = i}
        Rank(i) == Cardinality({k \in firsts : k <= i})
    IN  [n \in 1..Cardinality(firsts) |->
            LET i == CHOOSE k \in firsts : Rank(k) = n
            IN  videos[LastIndex(videos, videos[i].id)]]

OptionIds(options) == {options[i].id : i \in 1..Len(options)}

OptionWithId(options, id) == options[CHOOSE i \in 1..Len(options) : options[i].id = id]

\* falls back to the last candidate instead of the first
select_video_fallback_last(options, response_text) ==
    LET match == regex_search(response_text)
    IN  IF match # None /\ match[1] \in OptionIds(options)
        THEN OptionWithId(options, match[1])
        ELSE options[Len(options)]

\* lines 122-130: the candidate chosen from the model's response
select_video(options, response_text) ==
    LET match == regex_search(response_text)
    IN  IF match # None /\ match[1] \in OptionIds(options)
        THEN OptionWithId(options, match[1])
        ELSE options[1]

\* what the model may answer to the selection prompt
SelectionTexts ==
    { Id1, Id2, Id3,
      <<"I", "D", ":", " ">> \o Id2,
      <<"R", "e", "c", "o", "m", "m", "e", "n", "d", "e", "d", ":", " ">> \o Id2,
      <<"n", "o", "n", "e">> }

SelectionOutcomes == {LlmRaise, LlmNoContent} \cup {LlmText(t) : t \in SelectionTexts}

\* f"https://www.youtube.com/watch?v={video_id}"
UrlPrefix == <<"https://www.youtube.com/watch?v=">>

watch_url(video_id) == UrlPrefix \o video_id

----------------------------------------------------------------------------
(* The translator and the transcript service                                *)

lang_map ==
    [English |-> "en", Hindi |-> "hi", Marathi |-> "mr", Gujarati |-> "gu",
     Tamil |-> "ta", Kannada |-> "kn", Telugu |-> "te", Malayalam |-> "ml",
     Bengali |-> "bn", Punjabi |-> "pa"]

\* hands on the name of the language where its code is meant
lang_code_is_name(language) == language

\* self.lang_map.get(language, 'en')
lang_code(language) == IF language \in DOMAIN lang_map THEN lang_map[language] ELSE "en"

TranslateRaise == [kind |-> "raise", text |-> ""]

TranslateText(text) == [kind |-> "text", text |-> text]

\* GoogleTranslator(source='auto', target='en').translate(question)
ToPivotOutcomes == {TranslateRaise, TranslateText("question_en")}

\* GoogleTranslator(source='en', target=lang_code).translate(english_response)
FromPivotOutcomes == {TranslateRaise, TranslateText("answer_hi"), TranslateText("")}

\* the model's answer to the question
AnswerOutcomes == {TextRaise, TextNoContent, LlmText("answer_en"), LlmText("")}

\* YouTubeTranscriptApi.get_transcript(video_id, languages=['en', 'hi']), joined
TranscriptOutcomes ==
    { [kind |-> "ok", text |-> "transcript"], [kind |-> "ok", text |-> ""],
      [kind |-> "NoTranscriptFound", text |-> ""],
      [kind |-> "TranscriptsDisabled", text |-> ""],
      [kind |-> "Exception", text |-> ""] }

\* the model's answer to the summary prompt
SummaryOutcomes == {TextRaise, TextNoContent, LlmText("summary")}

\* carries the text of the exception
UnexpectedErrorText_with_exception == "An unexpected error occurred: Connection error."

UnexpectedErrorText == "An unexpected error occurred. Please try again."

\* f"I am currently having trouble processing this request in {language}. ..."
trouble_text(language) ==
    "I am currently having trouble processing this request in " \o language
        \o ". Please try rephrasing your question."

NoSummaryText == "No summary could be generated."

----------------------------------------------------------------------------
(* The session after frontend.main's initialisation (lines 85-90) and        *)
(* LLMHandler.__init__ (lines 52-55)                                         *)

InitialSession ==
    [initialized |-> TRUE, user_points |-> 0, user_badges |-> <<>>,
     streak_count |-> 0, questions_answered |-> 0,
     llm_cache |-> EmptyDict, fact_cache |-> EmptyDict]

\* the locals of generate_response as lines 170-172 leave them
NewFrame(question, language, service) ==
    [question |-> question, language |-> language, youtube_service |-> service,
     english_question |-> "", english_response |-> "", response_text |-> "",
     videos |-> <<>>, select_response_text |-> <<>>, selected_video |-> None,
     content_to_summarize |-> "",
     video_url |-> None, video_summary |-> None]

\* generate_response is not running
IdleFrame == NewFrame("", "", FALSE)

Init ==
    /\ session_state = InitialSession
    /\ now = 0
    /\ hist = None
    /\ ret = [op |-> "none", seq |-> 0]
    /\ pc = "idle"
    /\ frame = IdleFrame
    /\ calls = <<>>

----------------------------------------------------------------------------
(* The operations on the caches.  The application is single threaded: an    *)
(* operation starts only when no generate_response is running.              *)

\* what ret records of a call: its arguments, the model's answer when the
\* model was called, the result, and the parity of the call's sequence number
CallRecord(op, args, llm, r) ==
    [op |-> op, args |-> args,
     llm |-> IF r.llm_calls > 0 THEN Some(llm) ELSE None,
     value |-> r.value, llm_calls |-> r.llm_calls, error |-> r.error,
     seq |-> 1 - ret.seq]

Suggestions ==
    \E args \in SuggestionSettings, llm \in SuggestionOutcomes :
        LET r == generate_suggestions(session_state, args[1], args[2], args[3], args[4], llm)
        IN  /\ pc = "idle"
            /\ session_state' = r.session
            /\ ret' = CallRecord("generate_suggestions", args, llm, r)
            /\ hist' = Some([args |-> args, served |-> ~r.error,
                             value |-> IF r.error THEN <<>> ELSE r.value])
            /\ UNCHANGED <<now, pc, frame, calls>>

FactOfDay ==
    \E args \in FactSettings, llm \in FactOutcomes :
        LET r == generate_fact_of_day(session_state, now, args[1], args[2], args[3], llm)
        IN  /\ pc = "idle"
            /\ session_state' = r.session
            /\ ret' = CallRecord("generate_fact_of_day", args, llm, r)
            /\ UNCHANGED <<now, hist, pc, frame, calls>>

\* an explicit invalidation: what the previous call served no longer counts
Invalidated(h) ==
    IF h = None THEN None
    ELSE Some([args |-> h[1].args, served |-> FALSE, value |-> <<>>])

ClearSuggestionCache ==
    /\ pc = "idle"
    /\ session_state' = clear_suggestion_cache(session_state)
    /\ hist' = Invalidated(hist)
    /\ ret' = [op |-> "clear_suggestion_cache", seq |-> 1 - ret.seq]
    /\ UNCHANGED <<now, pc, frame, calls>>

ClearFactCache ==
    /\ pc = "idle"
    /\ session_state' = clear_fact_cache(session_state)
    /\ hist' = Invalidated(hist)
    /\ ret' = [op |-> "clear_fact_cache", seq |-> 1 - ret.seq]
    /\ UNCHANGED <<now, pc, frame, calls>>

\* time passes between two operations
AdvanceTime ==
    \E d \in TimeSteps :
        /\ pc = "idle"
        /\ now + d <= MaxTime
        /\ now' = now + d
        /\ UNCHANGED <<session_state, hist, ret, pc, frame, calls>>

Next ==
    \/ Suggestions
    \/ FactOfDay
    \/ ClearSuggestionCache
    \/ ClearFactCache
    \/ AdvanceTime

Spec == Init /\ [][Next]_vars

----------------------------------------------------------------------------
(* LLMHandler.generate_response, one step per external call.  pc names the  *)
(* step to run next; "done" is the state after the return statement, where  *)
(* frame still holds what was returned.  The handler is constructed anew on *)
(* every run of the script (frontend.main, line 94), so whether it holds a  *)
(* video search service is settled when the invocation starts.              *)

Questions == {"question"}

\* Odia is a language lang_map does not hold
GenerateLanguages == {"English", "Hindi", "Odia"}

\* one external call: the service and how it answered
CallEntry(svc, result) == [svc |-> svc, result |-> result]

\* keeps the answer in the session's llm_cache
Unchanged_cache_stores_answer ==
    /\ session_state' = SetAttrs(session_state,
                            [llm_cache |-> DictPut(session_state.llm_cache, frame.question,
                                                   frame.response_text)])
    /\ UNCHANGED <<now, hist, ret>>

\* generate_response assigns nothing of st.session_state
Unchanged_cache == UNCHANGED <<session_state, now, hist, ret>>

\* the video lookup and the summary come before the answer is translated back
next_step_video_first(step) ==
    CASE step = "translate_question" -> "generate_answer"
      [] step = "generate_answer" -> "video_search"
      [] step = "video_search" -> "video_select"
      [] step = "video_select" -> "fetch_transcript"
      [] step = "fetch_transcript" -> "summarize"
      [] step = "summarize" -> "translate_answer"
      [] step = "translate_answer" -> "done"

\* asks the model to select again after a selection
next_step_retries_select(step) ==
    CASE step = "translate_question" -> "generate_answer"
      [] step = "generate_answer" -> "translate_answer"
      [] step = "translate_answer" -> "video_search"
      [] step = "video_search" -> "video_select"
      [] step = "video_select" -> "video_select"
      [] step = "fetch_transcript" -> "summarize"
      [] step = "summarize" -> "done"

\* the order of the statements of lines 177-231: the step that follows a step
\* when the step neither raises nor leaves the video lookup early
next_step(step) ==
    CASE step = "translate_question" -> "generate_answer"
      [] step = "generate_answer" -> "translate_answer"
      [] step = "translate_answer" -> "video_search"
      [] step = "video_search" -> "video_select"
      [] step = "video_select" -> "fetch_transcript"
      [] step = "fetch_transcript" -> "summarize"
      [] step = "summarize" -> "done"

\* lines 168-175
Call ==
    \E question \in Questions, language \in GenerateLanguages, service \in BOOLEAN :
        /\ pc \in {"idle", "done"}
        /\ frame' = NewFrame(question, language, service)
        /\ calls' = <<>>
        /\ pc' = "translate_question"
        /\ Unchanged_cache

\* lines 177-184
TranslateQuestion ==
    /\ pc = "translate_question"
    /\ \/ /\ lang_code(frame.language) # "en"
          /\ \E out \in ToPivotOutcomes :
                /\ calls' = Append(calls, CallEntry("translate_to_pivot", out.kind))
                /\ frame' = [frame EXCEPT !.english_question =
                                IF out.kind = "raise" THEN frame.question ELSE out.text]
       \/ /\ lang_code(frame.language) = "en"
          /\ calls' = calls
          /\ frame' = [frame EXCEPT !.english_question = frame.question]
    /\ pc' = next_step("translate_question")
    /\ Unchanged_cache

\* lines 186-204, and lines 227-229 when the call or .strip() raises
GenerateAnswer ==
    /\ pc = "generate_answer"
    /\ \E llm \in AnswerOutcomes :
          /\ calls' = Append(calls, CallEntry("llm_answer", llm.kind))
          /\ \/ /\ llm.kind = "text"
                /\ frame' = [frame EXCEPT !.english_response = strip(llm.content)]
                /\ pc' = next_step("generate_answer")
             \/ /\ llm.kind # "text"
                /\ frame' = [frame EXCEPT !.response_text = UnexpectedErrorText]
                /\ pc' = "done"
    /\ Unchanged_cache

\* keeps an empty text
or_trouble_text_missing(response_text, language) == response_text

\* lines 216-217
or_trouble_text(response_text, language) ==
    IF response_text = "" THEN trouble_text(language) ELSE response_text

\* lines 206-217
TranslateAnswer ==
    /\ pc = "translate_answer"
    /\ \/ /\ lang_code(frame.language) # "en"
          /\ \E out \in FromPivotOutcomes :
                /\ calls' = Append(calls, CallEntry("translate_from_pivot", out.kind))
                /\ frame' = [frame EXCEPT !.response_text =
                                or_trouble_text(IF out.kind = "raise" THEN frame.english_response
                                                ELSE out.text,
                                                frame.language)]
       \/ /\ lang_code(frame.language) = "en"
          /\ calls' = calls
          /\ frame' = [frame EXCEPT !.response_text =
                          or_trouble_text(frame.english_response, frame.language)]
    /\ pc' = next_step("translate_answer")
    /\ Unchanged_cache

\* asks the model to choose also when the search found nothing
after_search_no_check(items) == next_step("video_search")

\* lines 88-90: no video, hence no selection, when the search found nothing
after_search(items) == IF items = <<>> THEN "done" ELSE next_step("video_search")

\* a failure of the search reaches the except branch of generate_response
search_outcome_propagates(f, out) ==
    IF out.kind = "raise"
    THEN [f EXCEPT !.response_text = UnexpectedErrorText]
    ELSE [f EXCEPT !.videos = out.items]

\* lines 79-88 and 132-134: the locals once the search has answered or raised
search_outcome(f, out) == [f EXCEPT !.videos = out.items]

\* search_and_select_video, lines 74-90 and 132-134; line 222 when it returns None
VideoSearch ==
    /\ pc = "video_search"
    /\ \/ /\ ~frame.youtube_service
          /\ calls' = calls
          /\ frame' = frame
          /\ pc' = "done"
       \/ /\ frame.youtube_service
          /\ \E out \in SearchOutcomes :
                /\ calls' = Append(calls, CallEntry("video_search", out.kind))
                /\ frame' = search_outcome(frame, out)
                /\ pc' = IF out.kind = "raise" THEN "done" ELSE after_search(out.items)
    /\ Unchanged_cache

\* search_and_select_video, lines 92-134; lines 222-224
VideoSelect ==
    /\ pc = "video_select"
    /\ \E llm \in SelectionOutcomes :
          /\ calls' = Append(calls, CallEntry("llm_select", llm.kind))
          /\ \/ /\ llm.kind = "text" /\ frame.videos # <<>>
                /\ LET selected == select_video(video_options(frame.videos), llm.content)
                   IN  frame' = [frame EXCEPT !.select_response_text = llm.content,
                                              !.selected_video = Some(selected),
                                              !.video_url = Some(watch_url(selected.id))]
                /\ pc' = next_step("video_select")
             \/ /\ llm.kind # "text" \/ frame.videos = <<>>
                /\ frame' = frame
                /\ pc' = "done"
    /\ Unchanged_cache

\* get_video_summary, lines 138-149
FetchTranscript ==
    /\ pc = "fetch_transcript"
    /\ \E out \in TranscriptOutcomes :
          LET content == IF out.kind = "ok" THEN out.text
                         ELSE frame.selected_video[1].description
          IN  /\ calls' = Append(calls, CallEntry("get_transcript", out.kind))
              /\ \/ /\ content = ""
                    /\ frame' = [frame EXCEPT !.video_summary = Some(NoSummaryText)]
                    /\ pc' = "done"
                 \/ /\ content # ""
                    /\ frame' = [frame EXCEPT !.content_to_summarize = content]
                    /\ pc' = next_step("fetch_transcript")
    /\ Unchanged_cache

\* a failure of the summary call reaches the except branch of generate_response
after_summary_propagates(f, llm) ==
    IF llm.kind = "text"
    THEN [f EXCEPT !.video_summary = Some(strip(llm.content))]
    ELSE [f EXCEPT !.response_text = UnexpectedErrorText]

\* answers a failed summary call with the fixed text
after_summary_no_summary_text(f, llm) ==
    [f EXCEPT !.video_summary = IF llm.kind = "text" THEN Some(strip(llm.content))
                                ELSE Some(NoSummaryText)]

\* lines 153-166 and 225: the locals once get_video_summary has returned
after_summary(f, llm) ==
    [f EXCEPT !.video_summary = IF llm.kind = "text" THEN Some(strip(llm.content)) ELSE None]

\* get_video_summary, lines 151-166
Summarize ==
    /\ pc = "summarize"
    /\ \E llm \in SummaryOutcomes :
          /\ calls' = Append(calls, CallEntry("llm_summary", llm.kind))
          /\ frame' = after_summary(frame, llm)
    /\ pc' = next_step("summarize")
    /\ Unchanged_cache

\* line 231: the dict generate_response returns
Answer == [text |-> frame.response_text, video_url |-> frame.video_url,
           video_summary |-> frame.video_summary]

NextGenerate ==
    \/ Call
    \/ TranslateQuestion
    \/ GenerateAnswer
    \/ TranslateAnswer
    \/ VideoSearch
    \/ VideoSelect
    \/ FetchTranscript
    \/ Summarize

SpecGenerate == Init /\ [][NextGenerate]_vars

----------------------------------------------------------------------------
(* LLMHandler._is_cache_valid as a function of the cache, the clock and its *)
(* arguments: the cache holds nothing, an entry with no timestamp, or an    *)
(* entry created at hist.created.                                           *)

ValidKey == create_settings_hash(3, "Physics", "English", "All Topics")

NeverStoredKey == create_settings_hash(3, "Physics", "English", "Light")

CreatedTimes == {0, 61, 1500}

\* the age of the entry when it is looked up, in minutes
EntryAges == {0, 1, 1439, 1440, 1441, 3000}

CacheDurations == {1, DefaultCacheDurationHours, 48}

InitValid ==
    /\ \E kind \in {"absent", "untimed", "timed"}, created \in CreatedTimes, age \in EntryAges :
          /\ kind # "timed" => created = 0
          /\ hist = [entry |-> kind, created |-> created]
          /\ now = created + age
          /\ session_state =
                SetAttrs(InitialSession,
                    [fact_cache |->
                        CASE kind = "absent" -> EmptyDict
                          [] kind = "untimed" ->
                                DictPut(EmptyDict, ValidKey, [fact |-> "f1", explanation |-> "e1"])
                          [] kind = "timed" ->
                                DictPut(EmptyDict, ValidKey,
                                        [fact |-> "f1", explanation |-> "e1",
                                         timestamp |-> isoformat(created)])])
    /\ ret = [op |-> "none", seq |-> 0]
    /\ pc = "idle"
    /\ frame = IdleFrame
    /\ calls = <<>>

CheckValid ==
    \E cache_key \in {ValidKey, NeverStoredKey}, hours \in CacheDurations :
        /\ ret' = [op |-> "is_cache_valid", key |-> cache_key, hours |-> hours,
                   value |-> is_cache_valid(session_state.fact_cache, now, cache_key, hours),
                   seq |-> 1 - ret.seq]
        /\ UNCHANGED <<session_state, now, hist, pc, frame, calls>>

SpecValid == InitValid /\ [][CheckValid]_vars

----------------------------------------------------------------------------
(* Claims *)

\* the step is a call of the operation op
IsCall(op) == ret'.op = op /\ ret'.seq # ret.seq

\* the settings-applied flag is set
FlagSet(s) == HasAttr(s, "settings_applied") /\ s.settings_applied

\* C1: after a suggestions call has returned a sequence for a settings tuple, the
\* next suggestions call with the same tuple and no explicit invalidation in
\* between returns the same sequence without calling the model; the first
\* suggestions call after the tuple has changed calls the model and returns the
\* newly generated sequence.  In every session, also one where no clear_* ran.
C1_SuggestionCache ==
    [][IsCall("generate_suggestions") /\ hist # None =>
         /\ (hist[1].served /\ hist[1].args = ret'.args) =>
                (ret'.value = hist[1].value /\ ret'.llm_calls = 0)
         /\ hist[1].args # ret'.args =>
                /\ ret'.llm_calls = 1
                /\ ret'.llm[1].kind = "text" =>
                      ret'.value = Take(parse_suggestions(ret'.llm[1].content), MaxSuggestions)
      ]_vars

\* C2: fact_of_day calls the model only when the cache holds no entry younger
\* than 24 hours for the key or the settings-applied flag is set; otherwise it
\* returns exactly the cached entry without calling the model; a second call
\* with the same arguments right after a successful first call returns the
\* first call's fact.
C2_FactCache ==
    [][IsCall("generate_fact_of_day") =>
         LET cache == session_state.fact_cache
             key == create_settings_hash(ret'.args[1], ret'.args[2], "English", ret'.args[3])
             young == /\ key \in DOMAIN cache
                      /\ now - fromisoformat(cache[key].timestamp)
                            < DefaultCacheDurationHours * MinutesPerHour
         IN  /\ ret'.llm_calls > 0 => (~young \/ FlagSet(session_state))
             /\ (young /\ ~FlagSet(session_state)) =>
                    (ret'.value = cache[key] /\ ret'.llm_calls = 0)
             /\ ( /\ ret.op = "generate_fact_of_day" /\ ret.args = ret'.args
                  /\ ~ret.error /\ ret.llm_calls = 1
                  /\ ret.value.timestamp = isoformat(now) ) =>
                    ret'.value.fact = ret.value.fact
      ]_vars

\* C3: is_valid(key, ttl) is true iff an entry exists for the key and
\* now - created_at < ttl; with the ttl of 24 hours an entry created at T is
\* valid at T+23h59m and invalid at T+24h00m and at T+24h01m; a key never
\* stored, or an entry with no timestamp, is invalid.
C3_CacheValidity ==
    ret.op = "is_cache_valid" =>
        LET timed == ret.key = ValidKey /\ hist.entry = "timed"
            age == now - hist.created
        IN  /\ ret.value = (timed /\ age < ret.hours * MinutesPerHour)
            /\ (timed /\ ret.hours = DefaultCacheDurationHours) =>
                  /\ age = 23 * MinutesPerHour + 59 => ret.value
                  /\ age = 24 * MinutesPerHour => ~ret.value
                  /\ age = 24 * MinutesPerHour + 1 => ~ret.value
            /\ ret.key = NeverStoredKey => ~ret.value
            /\ hist.entry = "untimed" => ~ret.value

C3_Witness ==
    /\ ret.op = "is_cache_valid" /\ ret.key = ValidKey
    /\ ret.hours = DefaultCacheDurationHours
    /\ hist.entry = "timed" /\ hist.created = 61
    /\ now - hist.created = 24 * MinutesPerHour
    /\ ~ret.value

----------------------------------------------------------------------------
(* Claims about generate_response *)

\* the invocation issued a call to svc that ended with result
Called(svc, result) == \E i \in 1..Len(calls) : calls[i] = CallEntry(svc, result)

\* the invocation issued a call to svc
CalledService(svc) == \E i \in 1..Len(calls) : calls[i].svc = svc

CandidateIds == {frame.videos[i].id : i \in 1..Len(frame.videos)}

\* text holds the id somewhere
ContainsId(text, id) ==
    \E i \in 1..Len(text) :
        /\ i + VideoIdLength - 1 <= Len(text)
        /\ SubSeq(text, i, i + VideoIdLength - 1) = id

PipelineSteps ==
    {"translate_question", "generate_answer", "translate_answer", "video_search",
     "video_select", "fetch_transcript", "summarize"}

\* C4: generate never raises to its caller (every step that has started leads
\* on to the return), and the Answer it returns has a non-empty text and a
\* video_url that is absent or the watch URL of the id of the selected
\* candidate, whatever the external services do.
C4_AlwaysAnAnswer ==
    /\ pc \in PipelineSteps \cup {"idle", "done"}
    /\ pc \in PipelineSteps => ENABLED NextGenerate
    /\ pc = "done" =>
          /\ Answer.text # ""
          /\ \/ Answer.video_url = None
             \/ /\ frame.selected_video # None
                /\ frame.selected_video[1].id \in CandidateIds
                /\ Answer.video_url = Some(UrlPrefix \o frame.selected_video[1].id)

C4_Witness ==
    /\ pc = "done"
    /\ Called("translate_to_pivot", "raise")
    /\ Called("llm_answer", "text") /\ frame.english_response = ""
    /\ Called("translate_from_pivot", "raise")
    /\ Called("get_transcript", "Exception")
    /\ Called("llm_summary", "raise")
    /\ Answer.video_url # None

\* C5: when the language is not the pivot and the back-translation fails, the
\* Answer's text is the pivot-language answer of the model and the Answer
\* carries an original_untranslated_text mark of the fallback; the mark is
\* absent when the back-translation succeeded.
C5_TranslationFallbackMarked ==
    (pc = "done" /\ lang_code(frame.language) # "en") =>
        /\ Called("translate_from_pivot", "raise") =>
              /\ Answer.text = frame.english_response
              /\ "original_untranslated_text" \in DOMAIN Answer
        /\ Called("translate_from_pivot", "text") =>
              "original_untranslated_text" \notin DOMAIN Answer

\* C6: when the search answers with a non-empty list and the model's selection
\* response holds no id of a candidate of that list, select returns the first
\* element of the list.
C6_SelectFallsBackToFirst ==
    ( /\ frame.selected_video # None
      /\ \A id \in CandidateIds : ~ContainsId(frame.select_response_text, id) ) =>
        frame.selected_video[1] = frame.videos[1]

C6_Witness ==
    /\ frame.selected_video # None
    /\ Len(frame.videos) = MaxResults
    /\ frame.videos[1].id = Id1
    /\ frame.select_response_text = Id3
    /\ Id3 \notin CandidateIds
    /\ frame.selected_video[1] = frame.videos[1]

\* C7: when the search answers with an empty list, select returns none without
\* asking the model to select, and the Answer has a non-empty text, no
\* video_url and no video_summary.
C7_EmptySearch ==
    (Called("video_search", "ok") /\ frame.videos = <<>>) =>
        /\ ~CalledService("llm_select")
        /\ frame.selected_video = None
        /\ pc = "done"
        /\ Answer.text # ""
        /\ Answer.video_url = None
        /\ Answer.video_summary = None

C7_Witness ==
    /\ pc = "done"
    /\ Called("video_search", "ok") /\ frame.videos = <<>>
    /\ Answer.text = "answer_hi"

\* C8: when the model call inside fact_of_day raises, fact_of_day returns the
\* fixed fallback payload with a fresh timestamp and leaves the fact cache as it
\* was: the fallback is not stored, and the same call made next asks the model
\* again.
C8_FactFallback ==
    [][(IsCall("generate_fact_of_day") /\ ret'.llm = Some(LlmRaise)) =>
         /\ ret'.value = [fact |-> FallbackFact, explanation |-> FallbackExplanation,
                          timestamp |-> isoformat(now)]
         /\ ret'.value.fact = "The human brain contains approximately 86 billion neurons!"
         /\ session_state'.fact_cache = session_state.fact_cache
         /\ \A llm \in FactOutcomes :
               generate_fact_of_day(session_state', now', ret'.args[1], ret'.args[2],
                                    ret'.args[3], llm).llm_calls = 1
      ]_vars

C8_Witness ==
    /\ ret.op = "generate_fact_of_day"
    /\ ret.llm = Some(LlmRaise)
    /\ ret.value.fact = FallbackFact
    /\ DOMAIN session_state.fact_cache # {}
    /\ now > 0

\* C9: no outcome of the video search, the selection, the transcript fetch or the
\* summary changes the text of the answer; and when a video was selected and
\* only the summary call fails, video_url is present and video_summary is none.
C9_EnrichmentsIndependent ==
    [][ /\ pc \in {"video_search", "video_select", "fetch_transcript", "summarize"} =>
              frame'.response_text = frame.response_text
        /\ (pc = "summarize" /\ calls'[Len(calls')].result # "text") =>
              /\ pc' = "done"
              /\ frame'.selected_video # None
              /\ frame'.video_url = Some(watch_url(frame'.selected_video[1].id))
              /\ frame'.video_summary = None
      ]_vars

C9_Witness ==
    /\ pc = "done"
    /\ Called("llm_summary", "raise")
    /\ Answer.text = "answer_en"
    /\ Answer.video_url # None
    /\ Answer.video_summary = None

\* the place of an external call in the order of C10
CallRank(svc) ==
    CASE svc = "translate_to_pivot" -> 1
      [] svc = "llm_answer" -> 2
      [] svc = "translate_from_pivot" -> 3
      [] svc = "video_search" -> 4
      [] svc = "llm_select" -> 5
      [] svc = "get_transcript" -> 6
      [] svc = "llm_summary" -> 7

\* C10: within one generate invocation the external calls are issued in the
\* order question translation, answer generation, back-translation, video
\* search and selection, summarization: no call is issued before an earlier one.
C10_CallOrder ==
    \A i, j \in 1..Len(calls) : i < j => CallRank(calls[i].svc) < CallRank(calls[j].svc)

C10_Witness ==
    /\ pc = "done"
    /\ Len(calls) = 7
    /\ calls[1].svc = "translate_to_pivot"
    /\ calls[7].svc = "llm_summary"

----------------------------------------------------------------------------
(* LLMHandler._create_settings_hash as a function of its arguments: two      *)
(* settings tuples are drawn, hist holds them, and the key of each is        *)
(* derived (the first one twice).                                            *)

KeyGrades == {3, 4}

\* the second subject holds the separator
KeySubjects == {"Physics", "Physics-Light"}

\* the second language holds the separator
KeyLanguages == {"English", "Light-English"}

\* the second topic is a topic of the curriculum that holds the separator
KeyTopics == {"All Topics", "Materials: Metals and Non-metals"}

KeySettings == KeyGrades \X KeySubjects \X KeyLanguages \X KeyTopics

InitKey ==
    /\ \E first \in KeySettings, second \in KeySettings :
          hist = [first |-> first, second |-> second]
    /\ session_state = InitialSession
    /\ now = 0
    /\ ret = [op |-> "none", seq |-> 0]
    /\ pc = "idle"
    /\ frame = IdleFrame
    /\ calls = <<>>

DeriveKey ==
    LET a == hist.first
        b == hist.second
    IN  /\ ret' = [op |-> "create_settings_hash",
                   first_string |-> settings_string(a[1], a[2], a[3], a[4]),
                   second_string |-> settings_string(b[1], b[2], b[3], b[4]),
                   first_key |-> create_settings_hash(a[1], a[2], a[3], a[4]),
                   second_key |-> create_settings_hash(b[1], b[2], b[3], b[4]),
                   again_key |-> create_settings_hash(a[1], a[2], a[3], a[4]),
                   seq |-> 1 - ret.seq]
        /\ UNCHANGED <<session_state, now, hist, pc, frame, calls>>

SpecKey == InitKey /\ [][DeriveKey]_vars

\* the texts of the inputs that hold the separator "-"
HoldsSeparator(text) ==
    text \in {"Physics-Light", "Light-English", "Materials: Metals and Non-metals"}

\* the number of fields in which two settings tuples differ
FieldsChanged(a, b) == Cardinality({i \in 1..4 : a[i] # b[i]})

----------------------------------------------------------------------------
(* Claims about the invalidation of the caches *)

\* no suggestions are held for any settings: the state clear_suggestion_cache leaves
SuggestionsInvalidated(s) == HasAttr(s, "last_settings_hash") /\ s.last_settings_hash = None

\* no fact is held for any key: the state clear_fact_cache leaves
FactsInvalidated(s) == s.fact_cache = EmptyDict

\* C12: clear_suggestion_cache leaves the session holding no suggestions, every
\* operation but a suggestions call keeps it so, and the suggestions call that
\* comes next, for any settings, calls the model; clear_fact_cache leaves the
\* fact cache empty, every operation but a fact_of_day call keeps it so, and the
\* fact_of_day call that comes next, for any key, calls the model.
C12_InvalidationForcesRegeneration ==
    [][ /\ IsCall("clear_suggestion_cache") => SuggestionsInvalidated(session_state')
        /\ SuggestionsInvalidated(session_state) =>
              IF IsCall("generate_suggestions")
              THEN ret'.llm_calls = 1
              ELSE SuggestionsInvalidated(session_state')
        /\ IsCall("clear_fact_cache") => FactsInvalidated(session_state')
        /\ FactsInvalidated(session_state) =>
              IF IsCall("generate_fact_of_day")
              THEN ret'.llm_calls = 1
              ELSE FactsInvalidated(session_state')
      ]_vars

C12_Witness ==
    /\ ret.op = "generate_suggestions"
    /\ ret.llm_calls = 1
    /\ ret.llm[1].kind = "text"
    /\ ret.value = session_state.cached_suggestions
    /\ ~SuggestionsInvalidated(session_state)
    /\ FactsInvalidated(session_state)
    /\ now > 0

----------------------------------------------------------------------------
(* Claims about generate_response and the pivot language *)

\* C13: when the selected language is English, generate issues no call to the
\* translator in either direction, the question put to the model is the
\* question as asked, and the text of the Answer is the answer the model gave
\* (an answer the model did give: a non-empty text), as it gave it.
C13_PivotNoTranslation ==
    (frame.language = "English" /\ pc # "idle") =>
        /\ ~CalledService("translate_to_pivot")
        /\ ~CalledService("translate_from_pivot")
        /\ pc # "translate_question" => frame.english_question = frame.question
        /\ CalledService("llm_answer") => calls[1].svc = "llm_answer"
        /\ (pc = "done" /\ Called("llm_answer", "text") /\ frame.english_response # "") =>
              Answer.text = frame.english_response

C13_Witness ==
    /\ pc = "done"
    /\ frame.language = "English"
    /\ frame.english_question = "question"
    /\ Called("llm_answer", "text")
    /\ Answer.text = "answer_en"
    /\ Len(calls) > 1

----------------------------------------------------------------------------
(* generate_response on a session whose caches hold something: the session  *)
(* is one the cache operations leave.                                       *)

\* the session after clear_suggestion_cache, generate_suggestions and
\* generate_fact_of_day have run, the model answering both
WarmSession ==
    LET cleared == clear_suggestion_cache(InitialSession)
        suggested == generate_suggestions(cleared, 3, "Physics", "English", "All Topics",
                                          LlmText(<<"qa1", " ", "qa2">>)).session
    IN  generate_fact_of_day(suggested, 0, 3, "Physics", "All Topics",
                             LlmText(<<FactLine("Fact:", "f1"), FactLine("Explanation:", "e1")>>)).session

CachedSessions == {InitialSession, clear_fact_cache(InitialSession), WarmSession}

InitCached ==
    /\ session_state \in CachedSessions
    /\ now = 0
    /\ hist = None
    /\ ret = [op |-> "none", seq |-> 0]
    /\ pc = "idle"
    /\ frame = IdleFrame
    /\ calls = <<>>

SpecGenerateCached == InitCached /\ [][NextGenerate]_vars

\* the attributes of the session that make up the cache state
CacheAttrs == {"cached_suggestions", "last_settings_hash", "fact_cache", "settings_applied"}

CacheState(s) == [k \in (DOMAIN s) \cap CacheAttrs |-> s[k]]

\* C14: no step of generate, on a successful or on a failed path, changes the
\* suggestion cache (cached_suggestions, last_settings_hash), the fact cache or
\* the settings-applied flag, nor anything else of the session; and every
\* invocation that returns has called the model for the answer, also the
\* second one for the same question: no answer comes from a cache.
C14_GenerateKeepsCaches ==
    [][ /\ CacheState(session_state') = CacheState(session_state)
        /\ session_state' = session_state
        /\ pc' = "done" => \E i \in 1..Len(calls') : calls'[i].svc = "llm_answer"
      ]_vars

C14_Witness ==
    /\ pc = "done"
    /\ session_state = WarmSession
    /\ session_state.cached_suggestions = <<"qa1", "qa2">>
    /\ DOMAIN session_state.fact_cache # {}
    /\ Called("llm_answer", "raise")

----------------------------------------------------------------------------
(* Claims about the suggestions and the settings-applied flag *)

\* C15: every suggestions call returns a sequence of at most 4 strings, and in
\* every reachable state the cached suggestion sequence has at most 4 elements,
\* however many lines the model emits.
C15_AtMostFourSuggestions ==
    /\ ret.op = "generate_suggestions" =>
          /\ Len(ret.value) <= 4
          /\ \A i \in 1..Len(ret.value) : ret.value[i] \in STRING
    /\ HasAttr(session_state, "cached_suggestions") =>
          Len(session_state.cached_suggestions) <= 4

C15_Witness ==
    /\ ret.op = "generate_suggestions"
    /\ ret.llm = Some(LlmText(<<"qb1", "qb2", "qb3", "qb4", "qb5">>))
    /\ ret.value = <<"qb1", "qb2", "qb3", "qb4">>
    /\ session_state.cached_suggestions = ret.value

\* C16: a fact_of_day call that regenerates while the settings-applied flag is
\* set clears the flag, as a regenerating suggestions call does; so a
\* fact_of_day call made right after a fact_of_day call with the same arguments
\* that stored its fact is served from the cache, without a suggestions call
\* in between.
C16_FlagClearedByBoth ==
    [][ /\ (IsCall("generate_suggestions") /\ ret'.llm_calls = 1) => ~FlagSet(session_state')
        /\ (IsCall("generate_fact_of_day") /\ ret'.llm_calls = 1 /\ FlagSet(session_state)) =>
              ~FlagSet(session_state')
        /\ ( /\ IsCall("generate_fact_of_day")
             /\ ret.op = "generate_fact_of_day" /\ ret.args = ret'.args
             /\ ret.llm_calls = 1 /\ ~ret.error
             /\ ret.value.timestamp = isoformat(now)
             /\ HasAttr(session_state, "settings_applied") ) =>
              (ret'.llm_calls = 0 /\ ret'.value = ret.value)
      ]_vars

\* C18: facts are keyed with the language pinned to English, whatever language
\* is selected (the language of the suggestions calls around it): every key of
\* the fact cache is the key of (grade, subject, "English", topic), and a
\* fact_of_day call that finds an entry younger than 24 hours for its
\* (grade, subject, topic) while the flag is not set returns that entry and
\* does not call the model.
C18_FactLanguageIndependent ==
    [][IsCall("generate_fact_of_day") =>
         LET cache == session_state.fact_cache
             key == create_settings_hash(ret'.args[1], ret'.args[2], "English", ret'.args[3])
         IN  /\ DOMAIN session_state'.fact_cache \subseteq
                    {create_settings_hash(a[1], a[2], "English", a[3]) : a \in FactSettings}
             /\ ( /\ key \in DOMAIN cache
                  /\ now - fromisoformat(cache[key].timestamp)
                        < DefaultCacheDurationHours * MinutesPerHour
                  /\ ~FlagSet(session_state) ) =>
                    (ret'.llm_calls = 0 /\ ret'.value = cache[key])
      ]_vars

----------------------------------------------------------------------------
(* Claims about the selection of the video *)

\* C19: whenever the model's selection response holds the id of a candidate of
\* the result list, anywhere in its text, select returns a candidate whose id
\* the response holds, and not the first search result by default.
C19_SelectFindsCandidate ==
    ( /\ frame.selected_video # None
      /\ \E id \in CandidateIds : ContainsId(frame.select_response_text, id) ) =>
        ContainsId(frame.select_response_text, frame.selected_video[1].id)

----------------------------------------------------------------------------
(* frontend_components/main_interface.py: the operations of MainInterface    *)
(* on st.session_state.  A chat message is [role, content]; its timestamp    *)
(* and its copy of the settings are left out.                                *)

\* the longest chat transcript the model follows
MaxMessages == 3

\* the parameters of generate_suggestions after self: grade, subject, language, topic
SuggestionsParams == 4

\* the parameters of generate_response after self: question, grade, subject, language, topic
ResponseParams == 5

\* the settings Sidebar.display returns ("All Topics" is returned as None)
Settings(grade, language, subject, topic) ==
    [grade |-> grade, language |-> language, subject |-> subject, topic |-> topic]

\* the selections of the user: each differs from the first in one field
UISettings ==
    { Settings(3, "English", "Physics", None),
      Settings(4, "English", "Physics", None),
      Settings(3, "Hindi", "Physics", None),
      Settings(3, "English", "Chemistry", None),
      Settings(3, "English", "Physics", Some("Light")) }

UIQuestions == {"question1", "question2"}

\* f"{settings['grade']}_{settings['subject']}_{settings['topic']}"
ui_cache_key(settings) ==
    ToString(settings.grade) \o "_" \o settings.subject \o "_"
        \o (IF settings.topic = None THEN "None" ELSE settings.topic[1])

\* the dict built from the settings at lines 44-49 and 102-107
context(settings) ==
    [grade |-> settings.grade, language |-> settings.language,
     subject |-> settings.subject, topic |-> settings.topic]

\* a call with the positional arguments args of a method with params required
\* parameters: Python raises TypeError unless there is an argument for each
BindsArguments(params, args) == Len(args) = params

Message(role, content) == [role |-> role, content |-> content]

\* MainInterface._display_suggestions: the session it leaves, whether it raised,
\* whether it generated suggestions, and the suggestions it shows
display_suggestions(s, settings, apply_pressed, llm) ==
    LET cache_key == ui_cache_key(settings)
        regenerate == \/ apply_pressed
                      \/ ~HasAttr(s, "suggestions_cache")
                      \/ ~HasAttr(s, "suggestions_key")
                      \/ s.suggestions_key # cache_key
        args == <<context(settings)>>
    IN  IF regenerate
        THEN IF ~BindsArguments(SuggestionsParams, args)
             THEN [session |-> s, raised |-> TRUE, generated |-> FALSE, shown |-> None]
             ELSE LET r == generate_suggestions(s, args[1], args[2], args[3], args[4], llm)
                  IN  [session |-> SetAttrs(r.session, [suggestions_cache |-> r.value,
                                                        suggestions_key |-> cache_key]),
                       raised |-> FALSE, generated |-> TRUE,
                       shown |-> Some(Take(r.value, MaxSuggestions))]
        ELSE [session |-> s, raised |-> FALSE, generated |-> FALSE,
              shown |-> Some(Take(s.suggestions_cache, MaxSuggestions))]

\* MainInterface._handle_question; response is what generate_response returns
handle_question(s, question, settings, response) ==
    LET s1 == SetAttrs(s, [chat_history |-> Append(s.chat_history, Message("user", question))])
        args == <<question, context(settings)>>
    IN  IF ~BindsArguments(ResponseParams, args)
        THEN [session |-> s1, raised |-> TRUE]
        ELSE [session |-> SetAttrs(s1, [chat_history |->
                              Append(s1.chat_history, Message("assistant", response))]),
              raised |-> FALSE]

\* the "Clear Chat History" button of MainInterface._display_chat_history
clear_chat(s) == SetAttrs(s, [chat_history |-> <<>>])

\* the session after MainInterface.display has assigned chat_history (lines 26-27)
InitUI ==
    /\ session_state = SetAttrs(InitialSession, [chat_history |-> <<>>])
    /\ now = 0
    /\ hist = None
    /\ ret = [op |-> "none", seq |-> 0]
    /\ pc = "idle"
    /\ frame = IdleFrame
    /\ calls = <<>>

DisplaySuggestions ==
    \E settings \in UISettings, apply_pressed \in BOOLEAN, llm \in SuggestionOutcomes :
        LET r == display_suggestions(session_state, settings, apply_pressed, llm)
        IN  /\ session_state' = r.session
            /\ ret' = [op |-> "display_suggestions", settings |-> settings,
                       apply_pressed |-> apply_pressed, raised |-> r.raised,
                       generated |-> r.generated, shown |-> r.shown, seq |-> 1 - ret.seq]
            /\ UNCHANGED <<now, hist, pc, frame, calls>>

HandleQuestion ==
    \E question \in UIQuestions, settings \in UISettings, text \in {"answer_en"} :
        LET r == handle_question(session_state, question, settings, text)
        IN  /\ Len(session_state.chat_history) < MaxMessages
            /\ session_state' = r.session
            /\ ret' = [op |-> "handle_question", question |-> question,
                       raised |-> r.raised, seq |-> 1 - ret.seq]
            /\ UNCHANGED <<now, hist, pc, frame, calls>>

\* the button is shown only when the transcript holds a message (line 131)
ClearChat ==
    /\ session_state.chat_history # <<>>
    /\ session_state' = clear_chat(session_state)
    /\ ret' = [op |-> "clear_chat", seq |-> 1 - ret.seq]
    /\ UNCHANGED <<now, hist, pc, frame, calls>>

NextUI ==
    \/ DisplaySuggestions
    \/ HandleQuestion
    \/ ClearChat

SpecUI == InitUI /\ [][NextUI]_vars

----------------------------------------------------------------------------
(* Claims about the user interface *)

SettingsFields == {"grade", "subject", "language", "topic"}

\* C17: when the settings of a render differ from the settings of the render
\* before it in one of grade, subject, language and topic, the render
\* regenerates the suggestions for the new settings and shows them: the
\* suggestions shown before do not stay, whichever the field.
C17_SettingsChangeRegenerates ==
    [][ ( /\ IsCall("display_suggestions")
          /\ ret.op = "display_suggestions"
          /\ Cardinality({f \in SettingsFields : ret.settings[f] # ret'.settings[f]}) = 1 ) =>
            /\ ret'.generated
            /\ ret'.shown # None
      ]_vars

\* one sequence is a prefix of the other
IsPrefix(old, new) == Len(old) <= Len(new) /\ SubSeq(new, 1, Len(old)) = old

\* C20: every operation but the clear leaves the messages of the transcript as
\* a prefix of the new transcript; handling a question appends two messages,
\* the user's and then the assistant's; the transcript always has even length
\* with roles alternating user, assistant; the clear leaves it empty.
C20_TranscriptAppendOnly ==
    [][ LET old == session_state.chat_history
            new == session_state'.chat_history
        IN  /\ IsCall("clear_chat") => new = <<>>
            /\ ~IsCall("clear_chat") => IsPrefix(old, new)
            /\ IsCall("handle_question") =>
                  /\ Len(new) = Len(old) + 2
                  /\ new[Len(old) + 1].role = "user"
                  /\ new[Len(old) + 2].role = "assistant"
            /\ Len(new) % 2 = 0
            /\ \A i \in 1..Len(new) :
                  new[i].role = IF i % 2 = 1 THEN "user" ELSE "assistant"
      ]_vars

----------------------------------------------------------------------------
(* Claims about failures of the external services *)

\* the external services generate_response calls
Services ==
    {"translate_to_pivot", "llm_answer", "translate_from_pivot", "video_search",
     "llm_select", "get_transcript", "llm_summary"}

\* the number of calls the invocation issued to svc
CallCount(svc) == Cardinality({i \in 1..Len(calls) : calls[i].svc = svc})

\* C21: no external call is retried.  Within one generate invocation the model
\* is called at most once for the answer, once for the selection and once for
\* the summary, the translator at most once per direction, the video search at
\* most once and the transcript service at most once, whatever the calls answer;
\* and a suggestions or a fact_of_day invocation on the session calls the model
\* at most once, whatever the model answers.
C21_NoRetry ==
    /\ \A svc \in Services : CallCount(svc) <= 1
    /\ \A i \in 1..Len(calls) : calls[i].svc \in Services
    /\ \A args \in SuggestionSettings, llm \in SuggestionOutcomes :
          generate_suggestions(session_state, args[1], args[2], args[3], args[4], llm).llm_calls <= 1
    /\ \A args \in FactSettings, llm \in FactOutcomes :
          generate_fact_of_day(session_state, now, args[1], args[2], args[3], llm).llm_calls <= 1

C21_Witness ==
    /\ pc = "done"
    /\ Called("translate_to_pivot", "raise")
    /\ Called("translate_from_pivot", "raise")
    /\ Called("llm_select", "text")
    /\ frame.select_response_text = <<"n", "o", "n", "e">>
    /\ Called("llm_summary", "none")
    /\ \A svc \in Services : CallCount(svc) = 1
    /\ session_state = WarmSession

\* C22: when the handler holds no video search service, or the search call
\* raises, select returns none and raises nothing to generate (the text of the
\* answer is kept, no apology replaces it), and the model is not asked to
\* select.
C22_SearchUnavailable ==
    LET unconfigured == pc = "done" /\ Called("llm_answer", "text") /\ ~frame.youtube_service
        failed == Called("video_search", "raise")
    IN  /\ unconfigured => ~CalledService("video_search")
        /\ (unconfigured \/ failed) =>
              /\ pc = "done"
              /\ ~CalledService("llm_select")
              /\ frame.selected_video = None
              /\ Answer.video_url = None
              /\ Answer.video_summary = None
              /\ Answer.text = or_trouble_text(IF Called("translate_from_pivot", "text")
                                               THEN Answer.text ELSE frame.english_response,
                                               frame.language)
              /\ Answer.text # UnexpectedErrorText

C22_Witness ==
    /\ pc = "done"
    /\ Called("video_search", "raise")
    /\ frame.youtube_service
    /\ Answer.text = "answer_hi"
    /\ Answer.video_url = None

\* C23: summarize submits the transcript to the model when the transcript fetch
\* succeeds, and the description of the video when the fetch fails, whatever
\* the failure; it raises nothing; it returns none when the model call fails,
\* and the fixed "no summary" text, without calling the model, when the
\* content to summarize is empty.
C23_Summarize ==
    CalledService("get_transcript") =>
        LET description == frame.selected_video[1].description
            fetched == Called("get_transcript", "ok")
            submitted == IF fetched THEN "transcript" ELSE description
        IN  /\ pc \in {"summarize", "done"}
            /\ (pc = "summarize" \/ CalledService("llm_summary")) =>
                  (frame.content_to_summarize = submitted /\ submitted # "")
            /\ (pc = "done" /\ ~CalledService("llm_summary")) =>
                  /\ Answer.video_summary = Some("No summary could be generated.")
                  /\ fetched \/ description = ""
            /\ (Called("llm_summary", "raise") \/ Called("llm_summary", "none")) =>
                  (pc = "done" /\ Answer.video_summary = None)
            /\ Called("llm_summary", "text") => Answer.video_summary = Some("summary")
            /\ Answer.text # UnexpectedErrorText
            /\ Answer.video_url # None

C23_Witness ==
    /\ pc = "done"
    /\ Called("get_transcript", "TranscriptsDisabled")
    /\ frame.content_to_summarize = "description1"
    /\ Called("llm_summary", "raise")
    /\ Answer.video_summary = None

\* the attribute k is held with the same value, or held by neither session
SameAttr(s1, s2, k) == HasAttr(s1, k) = HasAttr(s2, k) /\ (HasAttr(s1, k) => s1[k] = s2[k])

\* C24: a suggestions call that fails to generate returns the fixed list of four
\* fallback questions, raises nothing, leaves cached_suggestions and
\* last_settings_hash as they were; and no suggestions call made next, whatever
\* its settings, returns the fallback list from the cache.
C24_SuggestionsFallback ==
    [][(IsCall("generate_suggestions") /\ ret'.error) =>
         /\ ret'.value = << "What is the structure of an atom?",
                            "How do plants make their food?",
                            "What causes the seasons to change?",
                            "Why is water important for living things?" >>
         /\ SameAttr(session_state, session_state', "cached_suggestions")
         /\ SameAttr(session_state, session_state', "last_settings_hash")
         /\ \A args \in SuggestionSettings, llm \in SuggestionOutcomes :
               LET r == generate_suggestions(session_state', args[1], args[2], args[3], args[4], llm)
               IN  (r.llm_calls = 0 /\ ~r.error) => r.value # FallbackSuggestions
      ]_vars

C24_Witness ==
    /\ ret.op = "generate_suggestions"
    /\ ret.llm = Some(LlmRaise)
    /\ ret.value = FallbackSuggestions
    /\ session_state.cached_suggestions = <<"qa1", "qa2">>
    /\ session_state.last_settings_hash # Some(create_settings_hash(ret.args[1], ret.args[2], ret.args[3], ret.args[4]))

\* C25: from a fresh session on, neither suggestions nor fact_of_day takes its
\* fallback path because it reads a session variable that nothing has
\* assigned: no call ends in the except branch without having called the model.
C25_NoMissingVariable ==
    ret.op \in {"generate_suggestions", "generate_fact_of_day"} =>
        ~(ret.error /\ ret.llm_calls = 0)

\* C26: once the settings-applied flag has been set, no suggestions call
\* returns from the cache a sequence generated before: a suggestions call that
\* follows a failed suggestions call with the same settings (one that had to
\* regenerate and could not) does not return a cached sequence.
C26_InvalidationNotLost ==
    [][ ( /\ IsCall("generate_suggestions")
          /\ ret.op = "generate_suggestions"
          /\ ret.args = ret'.args
          /\ ret.error /\ ret.llm_calls = 1 ) =>
            ~(ret'.llm_calls = 0 /\ ~ret'.error)
      ]_vars

\* C27: fact_of_day returns from the cache only an entry younger than 24
\* hours; when the entry of the key has expired it is not returned: a failed
\* regeneration returns the fallback fact and leaves the expired entry stored,
\* and a successful regeneration overwrites the entry of the key, and no other,
\* with the new fact stamped with the time of the call.
C27_NoExpiredFact ==
    [][IsCall("generate_fact_of_day") =>
         LET cache == session_state.fact_cache
             key == create_settings_hash(ret'.args[1], ret'.args[2], "English", ret'.args[3])
             expired == /\ key \in DOMAIN cache
                        /\ now - fromisoformat(cache[key].timestamp) >= 24 * 60
         IN  /\ (ret'.llm_calls = 0 /\ ~ret'.error) =>
                   /\ key \in DOMAIN cache
                   /\ ret'.value = cache[key]
                   /\ now - fromisoformat(ret'.value.timestamp) < 24 * 60
             /\ expired => (ret'.llm_calls = 1 /\ ret'.value # cache[key])
             /\ (expired /\ ret'.error) =>
                   /\ ret'.value.fact = FallbackFact
                   /\ session_state'.fact_cache = cache
             /\ (ret'.llm_calls = 1 /\ ~ret'.error) =>
                   /\ session_state'.fact_cache = DictPut(cache, key, ret'.value)
                   /\ ret'.value.timestamp = isoformat(now)
                   /\ fromisoformat(ret'.value.timestamp) = now
      ]_vars

C27_Witness ==
    LET key == create_settings_hash(3, "Physics", "English", "All Topics")
    IN  /\ ret.op = "generate_fact_of_day"
        /\ ret.args = <<3, "Physics", "All Topics">>
        /\ ret.llm = Some(LlmNoContent)
        /\ ret.value.fact = FallbackFact
        /\ key \in DOMAIN session_state.fact_cache
        /\ session_state.fact_cache[key].fact = "f1"
        /\ now - fromisoformat(session_state.fact_cache[key].timestamp) = 24 * 60

\* C28: when the model call for the answer fails, the Answer has the fixed
\* apology as its text, which holds no text of the error, no video_url and no
\* video_summary, and the invocation calls neither the back-translation, nor
\* the video search, nor the selection, nor the summarizer.
C28_AnswerFailure ==
    (Called("llm_answer", "raise") \/ Called("llm_answer", "none")) =>
        /\ pc = "done"
        /\ Answer.text = "An unexpected error occurred. Please try again."
        /\ Answer.video_url = None
        /\ Answer.video_summary = None
        /\ \A svc \in {"translate_from_pivot", "video_search", "llm_select",
                        "get_transcript", "llm_summary"} : ~CalledService(svc)
        /\ calls[Len(calls)].svc = "llm_answer"

C28_Witness ==
    /\ pc = "done"
    /\ frame.language = "Hindi"
    /\ frame.youtube_service
    /\ Called("translate_to_pivot", "text")
    /\ Called("llm_answer", "raise")
    /\ Answer.text = UnexpectedErrorText

----------------------------------------------------------------------------
(* backend_code/gamification.py: GamificationSystem over st.session_state,   *)
(* and MainInterface._update_progress.  The date is the number of the day    *)
(* since the session started; progress_data, which log_question writes, is   *)
(* left out.                                                                 *)

\* the last day the model follows
MaxDays == 3

\* the most points the model follows
MaxPoints == 110

\* st.session_state.get(k, default)
SessionGet(s, k, default) == IF HasAttr(s, k) THEN s[k] ELSE default

\* datetime.now().date()
date_of(clock) == clock \div (24 * MinutesPerHour)

\* date.strftime('%Y-%m-%d'), as <<month, day of the month>> counted from
\* the session start, every month taken to have 31 days
strftime_date(day) == <<day \div 31, day % 31>>

\* datetime.strptime(text, '%Y-%m-%d').date()
strptime_date(text) == text[1] * 31 + text[2]

\* GamificationSystem._define_point_system
point_system ==
    [question_asked |-> 10, daily_challenge |-> 25, correct_answer |-> 15,
     topic_exploration |-> 5, daily_login |-> 5, sharing_knowledge |-> 20,
     completing_lesson |-> 30]

Badge(id, name, criteria) == [id |-> id, name |-> name, criteria |-> criteria]

\* GamificationSystem._define_badges, in the order of the dict
badge_definitions ==
    << Badge("first_question", "Curious Mind", [questions_asked |-> 1]),
       Badge("science_explorer", "Science Explorer", [questions_asked |-> 10]),
       Badge("daily_learner", "Daily Learner", [streak_days |-> 3]),
       Badge("week_warrior", "Week Warrior", [streak_days |-> 7]),
       Badge("quiz_master", "Quiz Master", [correct_answers |-> 5]),
       Badge("points_collector", "Points Collector", [total_points |-> 100]),
       Badge("science_star", "Science Star", [total_points |-> 500]),
       Badge("topic_master", "Topic Master", [topics_explored |-> 5]),
       Badge("helping_hand", "Helping Hand", [shares |-> 3]),
       Badge("consistent_learner", "Consistent Learner", [streak_days |-> 30]) >>

\* GamificationSystem.award_points: the session it leaves and the points earned
award_points(s, action, multiplier) ==
    LET base_points == IF action \in DOMAIN point_system THEN point_system[action] ELSE 0
        points_earned == base_points * multiplier
        s0 == IF HasAttr(s, "user_points") THEN s ELSE SetAttrs(s, [user_points |-> 0])
    IN  [session |-> SetAttrs(s0, [user_points |-> s0.user_points + points_earned]),
         value |-> points_earned]

\* GamificationSystem._get_user_stats
get_user_stats(s) ==
    [questions_asked |-> SessionGet(s, "questions_answered", 0),
     streak_days |-> SessionGet(s, "streak_count", 0),
     correct_answers |-> SessionGet(s, "correct_answers", 0),
     total_points |-> SessionGet(s, "user_points", 0),
     topics_explored |-> SessionGet(s, "topics_explored", 0),
     shares |-> SessionGet(s, "knowledge_shares", 0)]

\* GamificationSystem._check_badge_criteria
check_badge_criteria(criteria, stats) ==
    \A criterion \in DOMAIN criteria :
        ~((IF criterion \in DOMAIN stats THEN stats[criterion] ELSE 0) < criteria[criterion])

\* awards every badge, also one the list holds
not_awarded_ignored(user_badges, badge_id) == TRUE

\* badge_id not in st.session_state.user_badges
not_awarded(user_badges, badge_id) ==
    \A i \in 1..Len(user_badges) : user_badges[i] # badge_id

RECURSIVE award_loop(_, _, _, _)
\* the loop of lines 117-126 from the i-th badge definition on
award_loop(user_badges, newly_earned, stats, i) ==
    IF i > Len(badge_definitions) THEN [user_badges |-> user_badges, newly_earned |-> newly_earned]
    ELSE LET badge == badge_definitions[i]
         IN  IF not_awarded(user_badges, badge.id) /\ check_badge_criteria(badge.criteria, stats)
             THEN award_loop(Append(user_badges, badge.id),
                             Append(newly_earned, [id |-> badge.id, name |-> badge.name]),
                             stats, i + 1)
             ELSE award_loop(user_badges, newly_earned, stats, i + 1)

\* GamificationSystem.check_and_award_badges: the session it leaves and the
\* badges newly earned
check_and_award_badges(s) ==
    LET s0 == IF HasAttr(s, "user_badges") THEN s ELSE SetAttrs(s, [user_badges |-> <<>>])
        r == award_loop(s0.user_badges, <<>>, get_user_stats(s0), 1)
    IN  [session |-> SetAttrs(s0, [user_badges |-> r.user_badges]), value |-> r.newly_earned]

\* never takes the visit as one of the same day
same_day_never(today, last_date) == FALSE

\* today == last_date
same_day(today, last_date) == today = last_date

\* GamificationSystem.update_streak: the session it leaves
update_streak(s, clock) ==
    LET today == date_of(clock)
        visited == HasAttr(s, "last_visit_date")
        last_date == IF visited THEN strptime_date(s.last_visit_date) ELSE 0
        streak_count == IF visited /\ today = last_date + 1
                        THEN SessionGet(s, "streak_count", 0) + 1
                        ELSE 1
        s1 == SetAttrs(s, [streak_count |-> streak_count,
                           last_visit_date |-> strftime_date(today)])
    IN  IF visited /\ same_day(today, last_date) THEN s
        ELSE award_points(s1, "daily_login", 1).session

\* MainInterface._update_progress: the session it leaves and the points earned
update_progress(s, clock) ==
    LET awarded == award_points(s, "question_asked", 1)
        s1 == SetAttrs(awarded.session,
                       [questions_answered |-> SessionGet(awarded.session, "questions_answered", 0) + 1])
    IN  [session |-> update_streak(s1, clock), value |-> awarded.value]

\* the actions the components award points for on a button (daily_challenge.py)
AwardedActions == {"daily_challenge", "topic_exploration"}

AwardPoints ==
    \E action \in AwardedActions :
        LET r == award_points(session_state, action, 1)
        IN  /\ r.session.user_points <= MaxPoints
            /\ session_state' = r.session
            /\ ret' = [op |-> "award_points", value |-> r.value, seq |-> 1 - ret.seq]
            /\ UNCHANGED <<now, hist, pc, frame, calls>>

UpdateStreak ==
    LET s == update_streak(session_state, now)
    IN  /\ s.user_points <= MaxPoints
        /\ session_state' = s
        /\ ret' = [op |-> "update_streak", seq |-> 1 - ret.seq]
        /\ UNCHANGED <<now, hist, pc, frame, calls>>

CheckAndAwardBadges ==
    LET r == check_and_award_badges(session_state)
    IN  /\ session_state' = r.session
        /\ ret' = [op |-> "check_and_award_badges", value |-> r.value, seq |-> 1 - ret.seq]
        /\ UNCHANGED <<now, hist, pc, frame, calls>>

\* lines 118-124 of MainInterface._handle_question: the progress is updated and
\* the badges are checked
QuestionHandled ==
    LET updated == update_progress(session_state, now)
        r == check_and_award_badges(updated.session)
    IN  /\ r.session.user_points <= MaxPoints
        /\ session_state' = r.session
        /\ ret' = [op |-> "question_handled", value |-> r.value, seq |-> 1 - ret.seq]
        /\ UNCHANGED <<now, hist, pc, frame, calls>>

\* the next day, or the day after it, begins
AdvanceDay ==
    \E days \in {1, 2} :
        /\ date_of(now) + days <= MaxDays
        /\ now' = now + days * 24 * MinutesPerHour
        /\ UNCHANGED <<session_state, hist, ret, pc, frame, calls>>

NextGame ==
    \/ AwardPoints
    \/ UpdateStreak
    \/ CheckAndAwardBadges
    \/ QuestionHandled
    \/ AdvanceDay

SpecGame == Init /\ [][NextGame]_vars

----------------------------------------------------------------------------
(* Claims about the gamification state.                                      *)

NoDuplicates(seq) == \A i, j \in 1..Len(seq) : seq[i] = seq[j] => i = j

\* the ids of a list of newly earned badges
RECURSIVE BadgeIds(_)
BadgeIds(newly_earned) ==
    IF newly_earned = <<>> THEN <<>>
    ELSE <<Head(newly_earned).id>> \o BadgeIds(Tail(newly_earned))

\* the visit at the clock is the first one of its day
FirstVisitOfDay(s, clock) ==
    ~(HasAttr(s, "last_visit_date") /\ s.last_visit_date = strftime_date(date_of(clock)))

\* the last visit before the clock was on the day before
VisitedDayBefore(s, clock) ==
    HasAttr(s, "last_visit_date") /\ s.last_visit_date = strftime_date(date_of(clock) - 1)

\* what a visit at the clock makes of the streak, the date and the points,
\* given the points the step earns apart from the login
StreakStep(s, s2, clock, other_points) ==
    IF FirstVisitOfDay(s, clock)
    THEN /\ s2.last_visit_date = strftime_date(date_of(clock))
         /\ s2.user_points = s.user_points + other_points + point_system.daily_login
         /\ s2.streak_count = IF VisitedDayBefore(s, clock) THEN s.streak_count + 1 ELSE 1
    ELSE /\ s2.last_visit_date = s.last_visit_date
         /\ s2.user_points = s.user_points + other_points
         /\ s2.streak_count = s.streak_count

\* C29: each badge is awarded at most once: after every step (award_points,
\* update_streak, question handling, check_and_award_badges) user_badges
\* holds no id twice and still starts with the list it held before; a check
\* reports exactly the ids it appends, none of which the list held, and a
\* second check on the session it leaves reports nothing and changes nothing.
C29_BadgeAwardedOnce ==
    [][ /\ NoDuplicates(session_state'.user_badges)
        /\ IsPrefix(session_state.user_badges, session_state'.user_badges)
        /\ (IsCall("check_and_award_badges") \/ IsCall("question_handled")) =>
              LET again == check_and_award_badges(session_state')
              IN  /\ session_state'.user_badges
                        = session_state.user_badges \o BadgeIds(ret'.value)
                  /\ \A i \in 1..Len(ret'.value) :
                        not_awarded(session_state.user_badges, ret'.value[i].id)
                  /\ again.value = <<>>
                  /\ again.session = session_state'
      ]_vars

\* a check reports nothing although badges for the first question and for a
\* hundred points were earned before
C29_Witness ==
    /\ ret.op = "check_and_award_badges"
    /\ ret.value = <<>>
    /\ session_state.user_badges = <<"first_question", "points_collector">>

\* C30: update_streak is idempotent within a day: the first visit of a day
\* sets last_visit_date to the day, adds the daily_login points once and
\* makes streak_count the previous one plus 1 when the last visit was the day
\* before and 1 otherwise; a further visit of the day changes nothing; the
\* same holds for the visit a handled question makes, next to its own points;
\* streak_count is at least 1 after a visit and user_points never decreases.
C30_StreakIdempotent ==
    [][ /\ session_state'.user_points >= session_state.user_points
        /\ IsCall("update_streak") =>
              /\ StreakStep(session_state, session_state', now, 0)
              /\ ~FirstVisitOfDay(session_state, now) => session_state' = session_state
              /\ session_state'.streak_count >= 1
              /\ update_streak(session_state', now) = session_state'
        /\ IsCall("question_handled") =>
              /\ StreakStep(session_state, session_state', now, point_system.question_asked)
              /\ session_state'.streak_count >= 1
              /\ update_streak(session_state', now) = session_state'
      ]_vars

\* a visit on the third day in a row, with the points of three logins only
C30_Witness ==
    /\ ret.op = "update_streak"
    /\ date_of(now) = 2
    /\ session_state.streak_count = 3
    /\ session_state.last_visit_date = strftime_date(2)
    /\ session_state.user_points = 3 * point_system.daily_login

====
